---- MODULE Spec2Model ----
(***************************************************************************)
(* A model of the TFTP server of this repository: the packet codec of      *)
(* src/packet.rs (on byte sequences), the Dispatcher loop of main() and    *)
(* the read and write transfer workers of src/main.rs.                     *)
(*                                                                         *)
(* Bytes are integers 0..255, byte strings are sequences of bytes, and a   *)
(* Rust String is the sequence of its UTF-8 bytes.                         *)
(*                                                                         *)
(* The Dispatcher takes one step per datagram (one turn of its loop); a    *)
(* worker thread takes one step when it starts and one per rx.recv(), each *)
(* running up to the next rx.recv() or to the function's return.  A panic  *)
(* of main() ends the process and with it every thread.  Socket sends and  *)
(* file reads and writes succeed; File::open and File::create may fail.    *)
(***************************************************************************)
EXTENDS Integers, Sequences, FiniteSets, TLC

(* ------------------------------------------------------------------------ *)
(* Program constants                                                        *)
(* ------------------------------------------------------------------------ *)

READ_OPCODE == 1
WRITE_OPCODE == 2
DATA_OPCODE == 3
ACK_OPCODE == 4
ERROR_OPCODE == 5

SEE_MSG == 0
FILE_NOT_FOUND == 1
ILLEGAL_OP == 4
UNKNOWN_TID == 5

\* the payload array of a Data packet: [u8; 512]
BlockSize == 512
\* the Dispatcher's receive buffer: [0; 1024]
BufSize == 1024
\* u16 arithmetic
U16 == 65536

(* ------------------------------------------------------------------------ *)
(* Bounds of the model                                                      *)
(* ------------------------------------------------------------------------ *)

\* datagrams the Dispatcher receives in one run
MaxDatagrams == 3
\* a worker's block counter is not advanced beyond this value
MaxBlock == 3
\* turns of the read loop a worker takes after its channel was closed
MaxSpins == 1

(* ------------------------------------------------------------------------ *)
(* Byte-string helpers                                                      *)
(* ------------------------------------------------------------------------ *)

Min(a, b) == IF a <= b THEN a ELSE b

\* n copies of byte b
Fill(n, b) == [i \in 1..n |-> b]

\* the Rust slice s[from..to], 0-based and end-exclusive
Slice(s, from, to) == SubSeq(s, from + 1, to)

\* the Rust slice s[from..]
SliceFrom(s, from) == Slice(s, from, Len(s))

\* u16::to_be_bytes / from_be_bytes, to_le_bytes / from_le_bytes
BeBytes(n) == <<n \div 256, n % 256>>
LeBytes(n) == <<n % 256, n \div 256>>
FromBe(hi, lo) == hi * 256 + lo
FromLe(b0, b1) == b0 + 256 * b1

\* str::to_lowercase on ASCII letters (other bytes are kept)
ToLowerByte(b) == IF b >= 65 /\ b <= 90 THEN b + 32 ELSE b
ToLowercase(s) == [i \in 1..Len(s) |-> ToLowerByte(s[i])]

IsCont(b) == b >= 128 /\ b <= 191

\* std::str::from_utf8(s).is_ok(), from position i (1-based) on
RECURSIVE Utf8From(_, _)
Utf8From(s, i) ==
    IF i > Len(s) THEN TRUE
    ELSE LET b == s[i]
             has(k) == i + k <= Len(s)
         IN  IF b <= 127 THEN Utf8From(s, i + 1)
             ELSE IF b >= 194 /\ b <= 223
                  THEN has(1) /\ IsCont(s[i + 1]) /\ Utf8From(s, i + 2)
             ELSE IF b >= 224 /\ b <= 239
                  THEN /\ has(2)
                       /\ IsCont(s[i + 1]) /\ IsCont(s[i + 2])
                       /\ (b = 224 => s[i + 1] >= 160)
                       /\ (b = 237 => s[i + 1] <= 159)
                       /\ Utf8From(s, i + 3)
             ELSE IF b >= 240 /\ b <= 244
                  THEN /\ has(3)
                       /\ IsCont(s[i + 1]) /\ IsCont(s[i + 2]) /\ IsCont(s[i + 3])
                       /\ (b = 240 => s[i + 1] >= 144)
                       /\ (b = 244 => s[i + 1] <= 143)
                       /\ Utf8From(s, i + 4)
             ELSE FALSE

IsUtf8(s) == Utf8From(s, 1)

(* ------------------------------------------------------------------------ *)
(* Packet codec (src/packet.rs)                                             *)
(* ------------------------------------------------------------------------ *)

ModeNetAscii == <<110, 101, 116, 97, 115, 99, 105, 105>>
ModeOctet == <<111, 99, 116, 101, 116>>
ModeMail == <<109, 97, 105, 108>>

\* impl From<&str> for Mode: the match panics on any other text
ModePanics(s) == ToLowercase(s) \notin {ModeNetAscii, ModeOctet, ModeMail}
ModeFrom(s) ==
    LET l == ToLowercase(s)
    IN  IF l = ModeNetAscii THEN "NetAscii"
        ELSE IF l = ModeOctet THEN "Octet"
        ELSE "Mail"

\* Packet values
Request(op_code, file, mode) ==
    [type |-> "Request", op_code |-> op_code, file |-> file, mode |-> mode]
new_data(block, data, len) ==
    [type |-> "Data", block |-> block, data |-> data, len |-> len]
new_ack(block) == [type |-> "Ack", block |-> block]
\* (mutant: every Error packet is made with the code SEE_MSG)
new_error_see_msg(code, msg) == [type |-> "Error", code |-> SEE_MSG, msg |-> msg]
new_error(code, msg) == [type |-> "Error", code |-> code, msg |-> msg]

\* results of a decoding step: a value, an Err(Error) or a panic
Ok(v) == [res |-> "Ok", val |-> v]
Err(e) == [res |-> "Err", err |-> e]
Panic == [res |-> "Panic"]

\* the loop of read_until_zero_byte: the least index i (0-based) with
\* from <= i < to and s[i] = 0, or -1 when the loop runs out
RECURSIVE FirstZero(_, _, _)
FirstZero(s, from, to) ==
    IF from >= to THEN -1
    ELSE IF to - from = 1 THEN (IF s[from + 1] = 0 THEN from ELSE -1)
    ELSE LET mid == (from + to) \div 2
             l == FirstZero(s, from, mid)
         IN  IF l >= 0 THEN l ELSE FirstZero(s, mid, to)

\* read_until_zero_byte on the slice `s` with the cursor at `start` (0-based):
\* scans the indices start .. len-2 (the last byte is never looked at) and
\* yields the bytes before the first zero and the cursor after it
read_until_zero_byte(s, start) ==
    IF Len(s) = 0 THEN Panic
    ELSE LET end == Len(s) - 1
             i == FirstZero(s, start, end)
         IN  IF i < 0 THEN Err("NoZeroByte")
             ELSE Ok([bytes |-> Slice(s, start, i), pos |-> i + 1])

parse_rwrq(bytes, op_code) ==
    IF Len(bytes) < 2 THEN Panic
    ELSE LET s == SliceFrom(bytes, 2)
             file == read_until_zero_byte(s, 0)
         IN  IF file.res # "Ok" THEN file
             ELSE IF ~IsUtf8(file.val.bytes) THEN Panic
             ELSE LET mode == read_until_zero_byte(s, file.val.pos)
                  IN  IF mode.res # "Ok" THEN mode
                      ELSE IF ~IsUtf8(mode.val.bytes) THEN Panic
                      ELSE IF ModePanics(mode.val.bytes) THEN Panic
                      ELSE Ok(Request(op_code, file.val.bytes, ModeFrom(mode.val.bytes)))

\* BufReader::read into the 512-byte array: as many bytes as the slice holds,
\* at most 512; the rest of the array keeps its zeros
parse_data(bytes) ==
    IF Len(bytes) < 4 THEN Panic
    ELSE LET block == FromBe(bytes[3], bytes[4])
             len == Min(BlockSize, Len(bytes) - 4)
             data == SubSeq(bytes, 5, 4 + len) \o Fill(BlockSize - len, 0)
         IN  Ok(new_data(block, data, len))

parse_ack(bytes) ==
    IF Len(bytes) < 4 THEN Panic
    ELSE Ok(new_ack(FromBe(bytes[3], bytes[4])))

parse_error(bytes) ==
    IF Len(bytes) < 4 THEN Panic
    ELSE LET code == FromLe(bytes[3], bytes[4])
             msg == read_until_zero_byte(SliceFrom(bytes, 4), 0)
         IN  IF msg.res # "Ok" THEN msg
             ELSE IF ~IsUtf8(msg.val.bytes) THEN Panic
             ELSE Ok(new_error(code, msg.val.bytes))

\* Packet::deserialize
deserialize(bytes) ==
    IF Len(bytes) < 2 THEN Panic
    ELSE LET op_code == FromBe(bytes[1], bytes[2])
         IN  IF op_code = READ_OPCODE \/ op_code = WRITE_OPCODE
             THEN parse_rwrq(bytes, op_code)
             ELSE IF op_code = DATA_OPCODE THEN parse_data(bytes)
             ELSE IF op_code = ACK_OPCODE THEN parse_ack(bytes)
             ELSE IF op_code = ERROR_OPCODE THEN parse_error(bytes)
             ELSE Err("InvalidOpcode")

\* Packet::serialize panics on a Request: Mode::encode is todo!()
SerializePanics(p) == p.type = "Request"

\* Packet::serialize; a Data packet is written with its whole 512-byte array,
\* whatever its len
serialize(p) ==
    IF p.type = "Data" THEN BeBytes(DATA_OPCODE) \o BeBytes(p.block) \o p.data
    ELSE IF p.type = "Ack" THEN BeBytes(ACK_OPCODE) \o BeBytes(p.block)
    ELSE IF p.type = "Error"
         THEN BeBytes(ERROR_OPCODE) \o LeBytes(p.code) \o p.msg \o <<0>>
    ELSE <<>>

(* ------------------------------------------------------------------------ *)
(* Environment: peers, the datagrams they send, the files on disk           *)
(* ------------------------------------------------------------------------ *)

\* peer socket addresses
Addrs == {"a1", "a2"}

NameF == <<102>>
NameE == <<101>>
NameW == <<119>>
NameV == <<118>>
BadMode == <<120>>

\* the files on disk: "f" holds 600 bytes, "e" is empty; no other file can be
\* opened for reading
CanOpen(file) == file \in {NameF, NameE}
FileSize(file) == IF file = NameF THEN 600 ELSE 0
\* the byte of the file at `offset` (0-based)
FileByte(file, offset) == 1 + (offset % 250)
\* File::create succeeds for every name but the empty one
CanCreate(file) == file # <<>>

\* the bytes of a request datagram as a client writes them
RequestBytes(op_code, file, mode) == BeBytes(op_code) \o file \o <<0>> \o mode \o <<0>>

\* the payloads peers send in Data datagrams
Payload300 == Fill(300, 7)
Payload3 == Fill(3, 9)
Payload2 == Fill(2, 8)

\* the datagrams peers send
Datagrams ==
    { RequestBytes(READ_OPCODE, NameF, ModeOctet),
      RequestBytes(READ_OPCODE, NameE, ModeOctet),
      RequestBytes(READ_OPCODE, <<>>, ModeOctet),
      RequestBytes(WRITE_OPCODE, NameW, ModeOctet),
      RequestBytes(WRITE_OPCODE, <<>>, ModeOctet),
      RequestBytes(READ_OPCODE, NameF, BadMode),
      BeBytes(ACK_OPCODE) \o BeBytes(1),
      BeBytes(ACK_OPCODE) \o BeBytes(2),
      BeBytes(DATA_OPCODE) \o BeBytes(1) \o Payload300,
      BeBytes(DATA_OPCODE) \o BeBytes(2) \o Payload3,
      BeBytes(ERROR_OPCODE) \o LeBytes(0) \o <<0>>,
      BeBytes(9) }

\* what each peer sends: the first any of the datagrams above, the second a
\* write request for a file of its own and a short first block
SecondPeerDatagrams ==
    { RequestBytes(WRITE_OPCODE, NameV, ModeOctet),
      BeBytes(DATA_OPCODE) \o BeBytes(1) \o Payload2 }

PeerDatagrams(addr) == IF addr = "a1" THEN Datagrams ELSE SecondPeerDatagrams

AllDatagrams == Datagrams \cup SecondPeerDatagrams

(* ------------------------------------------------------------------------ *)
(* State                                                                    *)
(* ------------------------------------------------------------------------ *)

VARIABLES
    buf,          \* the Dispatcher's receive buffer, never cleared
    connections,  \* peer address -> the worker holding the channel's receiver
    workers,      \* the spawned worker threads, in spawn order
    replies,      \* the datagrams the Dispatcher wrote to the socket, in order
    mainState,    \* "running", or "panicked" once main() has panicked
    nrecv,        \* datagrams received so far
    last,         \* the datagram received last and its source address
    codec,        \* a packet taken through serialize and deserialize on its own
    counter       \* a worker's block counter late in a long transfer

vars == <<buf, connections, workers, replies, mainState, nrecv, last, codec, counter>>

WorkerIds == 1..Len(workers)

\* the Sender of worker w's channel is alive while the map holds it
SenderAlive(w) == \E a \in DOMAIN connections : connections[a] = w

\* the Receiver lives until the worker's function returns
ReceiverAlive(w) == workers[w].pc # "done"

\* socket.send_to(bytes, dst) by the Dispatcher
SendTo(log, dst, bytes) == Append(log, [dst |-> dst, bytes |-> bytes])

\* socket.send_to(bytes, dst) by worker w: its datagrams all go to w.dst and
\* are kept with the worker, in order
WorkerSend(w, bytes) == [w EXCEPT !.out = Append(@, bytes)]

\* the server as a whole is modelled by Spec; the codec on its own and the
\* block counter late in a transfer have specifications of their own
\* (CodecSpec, CounterSpec), and each leaves the other parts idle
CodecIdle == [pc |-> "idle"]
CounterIdle == [pc |-> "idle"]

Init ==
    /\ buf = Fill(BufSize, 0)
    /\ connections = << >>
    /\ workers = << >>
    /\ replies = << >>
    /\ mainState = "running"
    /\ nrecv = 0
    /\ last = [addr |-> "none", dgram |-> << >>]
    /\ codec = CodecIdle
    /\ counter = CounterIdle

(* ------------------------------------------------------------------------ *)
(* Dispatcher: one iteration of the loop of main()                          *)
(* ------------------------------------------------------------------------ *)

\* socket.recv_from(&mut buf): the datagram overwrites the front of the
\* buffer (cut at the buffer's size), the rest keeps what it held
RecvFrom(b, d) ==
    IF Len(d) >= Len(b) THEN SubSeq(d, 1, Len(b))
    ELSE d \o SubSeq(b, Len(d) + 1, Len(b))

\* the worker thread a Request spawns, before it has run: its arguments
\* (dst, file, and in chan the frames waiting in rx), its locals, and as
\* history the datagrams it sent (out), the bytes it wrote to its file
\* (written), the blocks of the Acks it took from rx (acks) and the turns
\* of the read loop it took on a closed channel (spins)
NewWorker(op_code, addr, file) ==
    [ kind |-> IF op_code = READ_OPCODE THEN "read" ELSE "write",
      dst |-> addr, file |-> file,
      pc |-> "start", outcome |-> "running",
      chan |-> << >>,
      current_block |-> 0, start |-> 0, end |-> 0, len |-> 0,
      pos |-> 0, data |-> Fill(BlockSize, 0),
      written |-> << >>, out |-> << >>, acks |-> {}, spins |-> 0 ]

\* recv_from returns the datagram d of addr; its length is not looked at
Receive(addr, d) ==
    /\ mainState = "running"
    /\ nrecv < MaxDatagrams
    /\ d \in PeerDatagrams(addr)
    /\ buf' = RecvFrom(buf, d)
    /\ nrecv' = nrecv + 1
    /\ last' = [addr |-> addr, dgram |-> d]
    /\ UNCHANGED <<codec, counter>>

\* Packet::deserialize(&buf): the whole buffer is decoded
Decoded(d) == deserialize(RecvFrom(buf, d))

\* Packet::deserialize panics (Mode::from, from_utf8().unwrap()): main dies
DispatchPanic(addr, d) ==
    /\ Receive(addr, d)
    /\ Decoded(d) = Panic
    /\ mainState' = "panicked"
    /\ UNCHANGED <<connections, workers, replies>>

\* Err(e): reply ILLEGAL_OP and continue
DispatchDecodeError(addr, d) ==
    /\ Receive(addr, d)
    /\ Decoded(d).res = "Err"
    /\ replies' = SendTo(replies, addr, serialize(new_error(ILLEGAL_OP, << >>)))
    /\ UNCHANGED <<connections, workers, mainState>>

\* Packet::Request: a new channel is inserted under addr (replacing, and so
\* dropping, the Sender the map held for addr) and a worker is spawned
Insert(map, addr, tx) ==
    [a \in DOMAIN map \cup {addr} |-> IF a = addr THEN tx ELSE map[a]]

DispatchRequest(addr, d) ==
    /\ Receive(addr, d)
    /\ LET r == Decoded(d)
       IN  /\ r.res = "Ok"
           /\ r.val.type = "Request"
           /\ IF r.val.op_code \in {READ_OPCODE, WRITE_OPCODE}
              THEN /\ workers' = Append(workers,
                                        NewWorker(r.val.op_code, addr, r.val.file))
                   /\ connections' = Insert(connections, addr, Len(workers) + 1)
                   /\ UNCHANGED mainState
              ELSE /\ mainState' = "panicked"
                   /\ UNCHANGED <<workers, connections>>
    /\ UNCHANGED replies

\* Data, Ack, Error with an entry for addr whose Receiver is alive
DispatchDeliver(addr, d) ==
    /\ Receive(addr, d)
    /\ addr \in DOMAIN connections
    /\ ReceiverAlive(connections[addr])
    /\ LET r == Decoded(d)
       IN  /\ r.res = "Ok"
           /\ r.val.type # "Request"
           /\ workers' = [workers EXCEPT ![connections[addr]].chan = Append(@, r.val)]
    /\ UNCHANGED <<connections, replies, mainState>>

\* Data, Ack, Error with an entry for addr whose worker has returned:
\* tx.send fails and .expect panics
DispatchDeliverPanic(addr, d) ==
    /\ Receive(addr, d)
    /\ addr \in DOMAIN connections
    /\ ~ReceiverAlive(connections[addr])
    /\ LET r == Decoded(d)
       IN  r.res = "Ok" /\ r.val.type # "Request"
    /\ mainState' = "panicked"
    /\ UNCHANGED <<connections, workers, replies>>

\* Data, Ack, Error with no entry for addr
DispatchUnknownTid(addr, d) ==
    /\ Receive(addr, d)
    /\ addr \notin DOMAIN connections
    /\ LET r == Decoded(d)
       IN  r.res = "Ok" /\ r.val.type # "Request"
    /\ replies' = SendTo(replies, addr, serialize(new_error(UNKNOWN_TID, << >>)))
    /\ UNCHANGED <<connections, workers, mainState>>

\* one iteration of the loop, for the datagram d of addr
Dispatch(addr, d) ==
    \/ DispatchPanic(addr, d)
    \/ DispatchDecodeError(addr, d)
    \/ DispatchRequest(addr, d)
    \/ DispatchDeliver(addr, d)
    \/ DispatchDeliverPanic(addr, d)
    \/ DispatchUnknownTid(addr, d)

(* ------------------------------------------------------------------------ *)
(* Read transfer worker: read_process                                       *)
(* ------------------------------------------------------------------------ *)

\* current_block += 1 on a u16 (the counter stays below MaxBlock here, far
\* from the overflow at 65535)
NextBlock(b) == (b + 1) % U16

\* (mutant: every Ack or Data block is taken as the expected one)
BlockMatchesAny(block, current_block) == TRUE

\* `if block == current_block` of both workers
BlockMatches(block, current_block) == block = current_block

\* File::seek(SeekFrom::End(0)): the new offset of the file handle
SeekEnd(file) == FileSize(file)

\* File::read(&mut data) at offset pos: the number of bytes read
ReadLen(file, pos) == Min(BlockSize, FileSize(file) - pos)

\* ... and the array afterwards: the bytes read, then what the array held
ReadInto(data, file, pos) ==
    LET n == ReadLen(file, pos)
    IN  IF n = 0 THEN data
        ELSE [i \in 1..n |-> FileByte(file, pos + i - 1)] \o SubSeq(data, n + 1, BlockSize)

\* the head of 'transfer and its body up to the wait for a frame: with
\* start < end read the file at the handle's offset, send the Data packet
\* and wait; else return Ok(())
ReadTurn(w) ==
    IF w.start < w.end
    THEN LET len == ReadLen(w.file, w.pos)
             data == ReadInto(w.data, w.file, w.pos)
         IN  WorkerSend([w EXCEPT !.len = len, !.data = data, !.pos = w.pos + len,
                                  !.pc = "recv"],
                        serialize(new_data(w.current_block, data, len)))
    ELSE [w EXCEPT !.pc = "done", !.outcome = "completed"]

\* the end of a turn of 'transfer (start += len; the position then set on
\* the Cursor is read by nothing) and the next turn
ReadNext(w) == ReadTurn([w EXCEPT !.start = w.start + w.len])

\* the thread starts: open the file, or reply FILE_NOT_FOUND and return;
\* take the size by seeking the handle to the end; first turn of the loop
ReadStart(id) ==
    /\ mainState = "running"
    /\ workers[id].kind = "read"
    /\ workers[id].pc = "start"
    /\ LET w == workers[id]
       IN  IF ~CanOpen(w.file)
           THEN workers' = [workers EXCEPT ![id] =
                    WorkerSend([w EXCEPT !.pc = "done", !.outcome = "open_failed"],
                               serialize(new_error(FILE_NOT_FOUND, << >>)))]
           ELSE workers' = [workers EXCEPT ![id] =
                    ReadTurn([w EXCEPT !.start = 0,
                                       !.end = SeekEnd(w.file),
                                       !.pos = SeekEnd(w.file),
                                       !.current_block = 1])]
    /\ UNCHANGED <<buf, connections, replies, mainState, nrecv, last, codec, counter>>

\* rx.recv() yields a frame (never a Request: main() keeps those)
ReadRecv(id) ==
    /\ mainState = "running"
    /\ workers[id].kind = "read"
    /\ workers[id].pc = "recv"
    /\ workers[id].chan # << >>
    /\ LET e == Head(workers[id].chan)
           w == [workers[id] EXCEPT !.chan = Tail(@)]
       IN  \/ /\ e.type = "Data"
              /\ workers' = [workers EXCEPT ![id] = w]
           \/ /\ e.type = "Ack"
              /\ ~BlockMatches(e.block, w.current_block)
              /\ workers' = [workers EXCEPT ![id] = [w EXCEPT !.acks = @ \cup {e.block}]]
           \/ /\ e.type = "Ack"
              /\ BlockMatches(e.block, w.current_block)
              /\ w.current_block < MaxBlock
              /\ workers' = [workers EXCEPT ![id] =
                    ReadNext([w EXCEPT !.acks = @ \cup {e.block},
                                       !.current_block = NextBlock(@)])]
           \/ /\ e.type = "Error"
              /\ workers' = [workers EXCEPT ![id] = [w EXCEPT !.pc = "done",
                                                             !.outcome = "aborted"]]
    /\ UNCHANGED <<buf, connections, replies, mainState, nrecv, last, codec, counter>>

\* rx.recv() yields Err (the Sender was dropped and the channel is empty):
\* the 'recv loop ends and the 'transfer loop goes on
ReadDisconnected(id) ==
    /\ mainState = "running"
    /\ workers[id].kind = "read"
    /\ workers[id].pc = "recv"
    /\ workers[id].chan = << >>
    /\ ~SenderAlive(id)
    /\ workers[id].spins < MaxSpins
    /\ workers' = [workers EXCEPT ![id] = ReadNext([@ EXCEPT !.spins = @ + 1])]
    /\ UNCHANGED <<buf, connections, replies, mainState, nrecv, last, codec, counter>>

(* ------------------------------------------------------------------------ *)
(* Write transfer worker: write_process                                     *)
(* ------------------------------------------------------------------------ *)

\* "There was an error creating/accessing the file"
CreateErrorMsg ==
    << 84, 104, 101, 114, 101, 32, 119, 97, 115, 32, 97, 110, 32, 101, 114, 114,
       111, 114, 32, 99, 114, 101, 97, 116, 105, 110, 103, 47, 97, 99, 99, 101,
       115, 115, 105, 110, 103, 32, 116, 104, 101, 32, 102, 105, 108, 101 >>

\* writer.write_all(&data): the bytes appended for an accepted Data packet
\* (the BufWriter hands them to the file when it is dropped, at the latest)
WriteAll(written, e) == written \o e.data

\* `if len < 512 { break 'recv }`
IsFinal(len) == len < BlockSize

\* the thread starts: create the file, or reply SEE_MSG and return; send
\* Ack 0 and wait for block 1
WriteStart(id) ==
    /\ mainState = "running"
    /\ workers[id].kind = "write"
    /\ workers[id].pc = "start"
    /\ LET w == workers[id]
       IN  IF ~CanCreate(w.file)
           THEN workers' = [workers EXCEPT ![id] =
                    WorkerSend([w EXCEPT !.pc = "done", !.outcome = "open_failed"],
                               serialize(new_error(SEE_MSG, CreateErrorMsg)))]
           ELSE workers' = [workers EXCEPT ![id] =
                    WorkerSend([w EXCEPT !.current_block = NextBlock(0), !.pc = "recv"],
                               serialize(new_ack(0)))]
    /\ UNCHANGED <<buf, connections, replies, mainState, nrecv, last, codec, counter>>

\* rx.recv() yields a frame (never a Request: main() keeps those)
WriteRecv(id) ==
    /\ mainState = "running"
    /\ workers[id].kind = "write"
    /\ workers[id].pc = "recv"
    /\ workers[id].chan # << >>
    /\ LET e == Head(workers[id].chan)
           w == [workers[id] EXCEPT !.chan = Tail(@)]
       IN  \/ /\ e.type = "Data"
              /\ ~BlockMatches(e.block, w.current_block)
              /\ workers' = [workers EXCEPT ![id] = w]
           \/ /\ e.type = "Data"
              /\ BlockMatches(e.block, w.current_block)
              /\ w.current_block < MaxBlock
              /\ workers' = [workers EXCEPT ![id] =
                    WorkerSend([w EXCEPT !.written = WriteAll(@, e),
                                         !.current_block = NextBlock(@),
                                         !.pc = IF IsFinal(e.len) THEN "done" ELSE "recv",
                                         !.outcome = IF IsFinal(e.len) THEN "completed"
                                                     ELSE @],
                               serialize(new_ack(w.current_block)))]
           \/ /\ e.type = "Ack"
              /\ workers' = [workers EXCEPT ![id] = w]
           \/ /\ e.type = "Error"
              /\ workers' = [workers EXCEPT ![id] = [w EXCEPT !.pc = "done",
                                                             !.outcome = "aborted"]]
    /\ UNCHANGED <<buf, connections, replies, mainState, nrecv, last, codec, counter>>

\* rx.recv() yields Err: the 'recv loop ends and the function returns Ok(())
WriteDisconnected(id) ==
    /\ mainState = "running"
    /\ workers[id].kind = "write"
    /\ workers[id].pc = "recv"
    /\ workers[id].chan = << >>
    /\ ~SenderAlive(id)
    /\ workers' = [workers EXCEPT ![id].pc = "done", ![id].outcome = "closed"]
    /\ UNCHANGED <<buf, connections, replies, mainState, nrecv, last, codec, counter>>

(* ------------------------------------------------------------------------ *)
(* Specification                                                            *)
(* ------------------------------------------------------------------------ *)

\* a step of the thread `id`, once it is spawned
Worker(id) ==
    /\ id \in WorkerIds
    /\ \/ ReadStart(id)
       \/ ReadRecv(id)
       \/ ReadDisconnected(id)
       \/ WriteStart(id)
       \/ WriteRecv(id)
       \/ WriteDisconnected(id)

Next ==
    \/ \E addr \in Addrs, d \in AllDatagrams : DispatchPanic(addr, d)
    \/ \E addr \in Addrs, d \in AllDatagrams : DispatchDecodeError(addr, d)
    \/ \E addr \in Addrs, d \in AllDatagrams : DispatchRequest(addr, d)
    \/ \E addr \in Addrs, d \in AllDatagrams : DispatchDeliver(addr, d)
    \/ \E addr \in Addrs, d \in AllDatagrams : DispatchDeliverPanic(addr, d)
    \/ \E addr \in Addrs, d \in AllDatagrams : DispatchUnknownTid(addr, d)
    \/ \E id \in WorkerIds : ReadStart(id)
    \/ \E id \in WorkerIds : ReadRecv(id)
    \/ \E id \in WorkerIds : ReadDisconnected(id)
    \/ \E id \in WorkerIds : WriteStart(id)
    \/ \E id \in WorkerIds : WriteRecv(id)
    \/ \E id \in WorkerIds : WriteDisconnected(id)

Spec == Init /\ [][Next]_vars

\* every spawned thread is scheduled; peers need not send anything
FairSpec == Spec /\ \A id \in 1..MaxDatagrams : WF_vars(Worker(id))

(* ------------------------------------------------------------------------ *)
(* The codec on its own: serialize and deserialize applied to a packet      *)
(* ------------------------------------------------------------------------ *)

\* the server's state, left as it is at the start
ServerIdle ==
    /\ buf = Fill(BufSize, 0)
    /\ connections = << >>
    /\ workers = << >>
    /\ replies = << >>
    /\ mainState = "running"
    /\ nrecv = 0
    /\ last = [addr |-> "none", dgram |-> << >>]

NoFrame == [type |-> "None"]
NoResult == [res |-> "None"]

\* Packet::Data with a payload of len bytes at the front of the array
DataFrame(block, len) ==
    new_data(block, Fill(len, 7) \o Fill(BlockSize - len, 0), len)

\* the Packet values handed to serialize
Frames ==
    {Request(op, file, mode) : op \in {READ_OPCODE, WRITE_OPCODE},
                               file \in {NameF, NameW},
                               mode \in {"NetAscii", "Octet", "Mail"}}
    \cup {DataFrame(block, len) : block \in {1, 2, U16 - 1},
                                  len \in {0, 1, 300, BlockSize - 1, BlockSize}}
    \cup {new_ack(block) : block \in {0, 1, 256, U16 - 1}}
    \cup {new_error(code, msg) : code \in 0..7, msg \in {<< >>, CreateErrorMsg}}

\* the byte slices handed to deserialize as they are: requests that end
\* with the mode's zero byte, requests followed by one more byte, and
\* requests cut before a zero byte
Buffers ==
    {RequestBytes(op, file, mode) \o rest :
         op \in {READ_OPCODE, WRITE_OPCODE}, file \in {NameF, << >>},
         mode \in {ModeOctet, ModeNetAscii}, rest \in {<< >>, <<0>>, <<120>>}}
    \cup {BeBytes(op) \o NameF \o <<0>> \o ModeOctet : op \in {READ_OPCODE, WRITE_OPCODE}}
    \cup {BeBytes(op) \o NameF : op \in {READ_OPCODE, WRITE_OPCODE}}

CodecInit ==
    /\ ServerIdle
    /\ counter = CounterIdle
    /\ codec \in {[pc |-> "frame", frame |-> f, wire |-> << >>, decoded |-> NoResult] :
                      f \in Frames}
               \cup {[pc |-> "bytes", frame |-> NoFrame, wire |-> b, decoded |-> NoResult] :
                      b \in Buffers}

\* packet.serialize()
Encode ==
    /\ codec.pc = "frame"
    /\ ~SerializePanics(codec.frame)
    /\ codec' = [codec EXCEPT !.wire = serialize(codec.frame), !.pc = "bytes"]
    /\ UNCHANGED <<buf, connections, workers, replies, mainState, nrecv, last, counter>>

\* packet.serialize() of a Request: todo!() panics
EncodePanic ==
    /\ codec.pc = "frame"
    /\ SerializePanics(codec.frame)
    /\ codec' = [codec EXCEPT !.pc = "panicked"]
    /\ UNCHANGED <<buf, connections, workers, replies, mainState, nrecv, last, counter>>

\* Packet::deserialize(bytes)
Decode ==
    /\ codec.pc = "bytes"
    /\ codec' = [codec EXCEPT !.decoded = deserialize(codec.wire), !.pc = "decoded"]
    /\ UNCHANGED <<buf, connections, workers, replies, mainState, nrecv, last, counter>>

CodecNext == Encode \/ EncodePanic \/ Decode

CodecSpec == CodecInit /\ [][CodecNext]_vars

(* ------------------------------------------------------------------------ *)
(* The block counter late in a transfer                                     *)
(* ------------------------------------------------------------------------ *)

\* the counter is followed over its last BlockWindow values before the
\* greatest u16
BlockWindow == 60

\* a worker whose peer has answered every block so far: the read of a file
\* that is not empty never ends (start stays 0) and no Data frame the
\* Dispatcher decodes ends a write (its len is 512), so the counter of
\* either worker comes to any value; nth counts the blocks
CounterInit ==
    /\ ServerIdle
    /\ codec = CodecIdle
    /\ counter \in {[pc |-> "counting", kind |-> k,
                      current_block |-> U16 - BlockWindow, nth |-> U16 - BlockWindow] :
                        k \in {"read", "write"}}

\* current_block += 1 below the greatest u16
CounterAdvance ==
    /\ counter.pc = "counting"
    /\ counter.current_block + 1 < U16
    /\ counter' = [counter EXCEPT !.current_block = NextBlock(@), !.nth = @ + 1]
    /\ UNCHANGED <<buf, connections, workers, replies, mainState, nrecv, last, codec>>

\* current_block += 1 at 65535 in a build without overflow checks: wraps to 0
CounterWrap ==
    /\ counter.pc = "counting"
    /\ counter.current_block + 1 = U16
    /\ counter' = [counter EXCEPT !.current_block = NextBlock(@), !.nth = @ + 1,
                                  !.pc = "wrapped"]
    /\ UNCHANGED <<buf, connections, workers, replies, mainState, nrecv, last, codec>>

\* current_block += 1 at 65535 in a build with overflow checks: the thread
\* panics ("attempt to add with overflow")
CounterPanic ==
    /\ counter.pc = "counting"
    /\ counter.current_block + 1 = U16
    /\ counter' = [counter EXCEPT !.pc = "panicked"]
    /\ UNCHANGED <<buf, connections, workers, replies, mainState, nrecv, last, codec>>

CounterNext == CounterAdvance \/ CounterWrap \/ CounterPanic

CounterSpec == CounterInit /\ [][CounterNext]_vars

(* ------------------------------------------------------------------------ *)
(* Vocabulary of the properties                                             *)
(* ------------------------------------------------------------------------ *)

Running(id) == workers[id].pc # "done"
Readers == {id \in WorkerIds : workers[id].kind = "read"}
Writers == {id \in WorkerIds : workers[id].kind = "write"}

\* the opcode and the block number of a datagram on the wire
WireOpcode(d) == FromBe(d[1], d[2])
WireBlock(d) == FromBe(d[3], d[4])
IsWireData(d) == Len(d) >= 4 /\ WireOpcode(d) = DATA_OPCODE
IsWireAck(d) == Len(d) = 4 /\ WireOpcode(d) = ACK_OPCODE

\* the Error datagram with the given code and no message
WireError(code) == BeBytes(ERROR_OPCODE) \o LeBytes(code) \o <<0>>

\* the positions of the zero bytes of d after its opcode
ZerosOf(d) == {i \in 3..Len(d) : d[i] = 0}
LeastOf(S) == CHOOSE x \in S : \A y \in S : x <= y

\* a datagram that is a frame of the protocol: an opcode 1..5, for a
\* Request a filename and a known mode both ended by a zero byte, for an
\* Error a message ended by a zero byte
IsFrame(d) ==
    /\ Len(d) >= 2
    /\ WireOpcode(d) \in 1..5
    /\ WireOpcode(d) \in {READ_OPCODE, WRITE_OPCODE} =>
         /\ Cardinality(ZerosOf(d)) >= 2
         /\ LET z1 == LeastOf(ZerosOf(d))
                z2 == LeastOf(ZerosOf(d) \ {z1})
            IN  ToLowercase(SubSeq(d, z1 + 1, z2 - 1))
                    \in {ModeNetAscii, ModeOctet, ModeMail}
    /\ WireOpcode(d) \in {DATA_OPCODE, ACK_OPCODE} => Len(d) >= 4
    /\ WireOpcode(d) = ERROR_OPCODE => Len(d) >= 4 /\ \E i \in 5..Len(d) : d[i] = 0

\* a Data, Ack or Error frame
IsTransferFrame(d) ==
    IsFrame(d) /\ WireOpcode(d) \in {DATA_OPCODE, ACK_OPCODE, ERROR_OPCODE}

\* the step is an iteration of the Dispatcher's loop
Received == nrecv' = nrecv + 1

\* the payload the peer addr sends as Data block b
PayloadOf(addr, b) ==
    LET d == CHOOSE x \in PeerDatagrams(addr) : IsWireData(x) /\ WireBlock(x) = b
    IN  SubSeq(d, 5, Len(d))

RECURSIVE Payloads(_, _)
Payloads(addr, n) ==
    IF n = 0 THEN << >> ELSE Payloads(addr, n - 1) \o PayloadOf(addr, n)

\* the bytes [from, to) of a file
FileBytes(file, from, to) == [i \in 1..(to - from) |-> FileByte(file, from + i - 1)]

\* the number of Data blocks of a file of the given size
BlocksOf(size) == (size \div BlockSize) + 1

\* Data block k of a file as the protocol sends it
WireDataOf(file, k) ==
    BeBytes(DATA_OPCODE) \o BeBytes(k)
        \o FileBytes(file, BlockSize * (k - 1), Min(BlockSize * k, FileSize(file)))

(* ------------------------------------------------------------------------ *)
(* Properties                                                               *)
(* ------------------------------------------------------------------------ *)

\* C1: no peer address has two transfer workers running at once: a Request
\* from an address with a running worker starts no second worker.
C1_OneWorkerPerAddr ==
    \A a \in Addrs :
        Cardinality({id \in WorkerIds : workers[id].dst = a /\ Running(id)}) <= 1

\* C2: once a worker has returned, the registry eventually stops mapping
\* its peer address to it (while the process lives).
C2_FinishedIsRemoved ==
    \A id \in 1..MaxDatagrams :
        [](id \in WorkerIds /\ ~Running(id)
              => <>(~SenderAlive(id) \/ mainState = "panicked"))

\* C3: the Dispatcher never crashes, whatever datagrams arrive and whatever
\* happens to the workers.
C3_DispatcherRuns == mainState = "running"

\* C4: a Data, Ack or Error frame from an address none of whose transfers is
\* running is answered with Error{UNKNOWN_TID}; no session is created, no
\* worker started, and the Dispatcher goes on.
C4_UnknownTidReply ==
    [][ (/\ Received
         /\ IsTransferFrame(last'.dgram)
         /\ \A id \in WorkerIds : workers[id].dst = last'.addr => ~Running(id))
        => /\ replies' = Append(replies, [dst |-> last'.addr,
                                          bytes |-> WireError(UNKNOWN_TID)])
           /\ workers' = workers
           /\ connections' = connections
           /\ mainState' = "running" ]_vars

\* C5: a datagram that is no frame of the protocol is answered with
\* Error{ILLEGAL_OP}; the registry and the workers are left as they were and
\* the Dispatcher goes on.
C5_IllegalOpReply ==
    [][ (Received /\ ~IsFrame(last'.dgram))
        => /\ replies' = Append(replies, [dst |-> last'.addr,
                                          bytes |-> WireError(ILLEGAL_OP)])
           /\ workers' = workers
           /\ connections' = connections
           /\ mainState' = "running" ]_vars

\* C6: every Data datagram a read worker has sent carries block 1 or a
\* block N+1 whose predecessor's Ack{N} the worker has taken from its
\* channel.
C6_AckBeforeNextBlock ==
    \A id \in Readers :
        \A i \in 1..Len(workers[id].out) :
            LET d == workers[id].out[i]
            IN  IsWireData(d) =>
                    \/ WireBlock(d) = 1
                    \/ (WireBlock(d) - 1) \in workers[id].acks

\* C6 witness: a read worker has sent block 3 after taking Ack 1 and Ack 2.
C6_Witness ==
    \E id \in Readers :
        /\ \E i \in 1..Len(workers[id].out) :
              IsWireData(workers[id].out[i]) /\ WireBlock(workers[id].out[i]) = 3
        /\ {1, 2} \subseteq workers[id].acks

\* C7: a read worker for a file whose size is no multiple of 512 sends the
\* file's blocks in order, the k-th datagram being Data block k with the
\* file's bytes 512(k-1) .. 512k (the last one shorter), and no more
\* datagrams than the file has blocks.
C7_SendsFileBlocks ==
    \A id \in Readers :
        (CanOpen(workers[id].file) /\ FileSize(workers[id].file) % BlockSize # 0) =>
            /\ Len(workers[id].out) <= BlocksOf(FileSize(workers[id].file))
            /\ \A k \in 1..Len(workers[id].out) :
                  workers[id].out[k] = WireDataOf(workers[id].file, k)

\* C8: a read worker that has completed the transfer of a file it could
\* open has sent at least one Data datagram, and for a size that is a
\* multiple of 512 its last one is a Data block of length 0.
C8_TrailingEmptyBlock ==
    \A id \in Readers :
        (CanOpen(workers[id].file) /\ workers[id].outcome = "completed") =>
            /\ Len(workers[id].out) >= 1
            /\ FileSize(workers[id].file) % BlockSize = 0 =>
                  workers[id].out[Len(workers[id].out)]
                      = BeBytes(DATA_OPCODE) \o BeBytes(Len(workers[id].out))

\* C9: a write worker that has acknowledged a Data block whose datagram
\* carried fewer than 512 payload bytes is done (every Data datagram the
\* peers send here is that short).
C9_ShortBlockEnds ==
    (\A d \in AllDatagrams : IsWireData(d) => Len(d) - 4 < BlockSize) =>
        \A id \in Writers :
            (\E i \in 1..Len(workers[id].out) :
                IsWireAck(workers[id].out[i]) /\ WireBlock(workers[id].out[i]) >= 1)
            => workers[id].pc = "done"

\* C10: the bytes a write worker has written are the payloads of the Data
\* blocks it has accepted, 1 .. current_block - 1, one after the other,
\* and nothing else.
C10_FileIsPayloads ==
    \A id \in Writers :
        workers[id].pc # "start" /\ CanCreate(workers[id].file) =>
            workers[id].written = Payloads(workers[id].dst, workers[id].current_block - 1)

\* a frame the worker w does not expect: for a read worker a Data frame or
\* an Ack of another block than the current one, for a write worker an Ack
\* or a Data frame of another block than the expected one
Unexpected(w, e) ==
    IF w.kind = "read"
    THEN e.type = "Data" \/ (e.type = "Ack" /\ e.block # w.current_block)
    ELSE e.type = "Ack" \/ (e.type = "Data" /\ e.block # w.current_block)

\* C11: a worker that takes a frame it does not expect from its channel
\* sends nothing, reads and writes nothing, keeps its block counter and
\* goes on waiting.
C11_UnexpectedIgnored ==
    [][ \A id \in WorkerIds :
          (/\ workers[id].pc = "recv"
           /\ workers[id].chan # << >>
           /\ workers'[id].chan = Tail(workers[id].chan)
           /\ Unexpected(workers[id], Head(workers[id].chan)))
          => /\ workers'[id].out = workers[id].out
             /\ workers'[id].written = workers[id].written
             /\ workers'[id].pos = workers[id].pos
             /\ workers'[id].data = workers[id].data
             /\ workers'[id].current_block = workers[id].current_block
             /\ workers'[id].pc = "recv" ]_vars

\* C11 witness: the only worker, a read worker, got two frames from its
\* peer, the last one Ack{1}, has taken both and stands at block 2 with two
\* Data datagrams sent: one of the two frames was a duplicate Ack{1} or a
\* Data frame, and was ignored.
C11_Witness ==
    /\ Len(workers) = 1
    /\ nrecv = 3
    /\ replies = << >>
    /\ mainState = "running"
    /\ workers[1].kind = "read"
    /\ workers[1].pc = "recv"
    /\ workers[1].chan = << >>
    /\ workers[1].current_block = 2
    /\ workers[1].acks = {1}
    /\ Len(workers[1].out) = 2
    /\ last = [addr |-> workers[1].dst, dgram |-> BeBytes(ACK_OPCODE) \o BeBytes(1)]

\* the thread `id` has returned
Terminated(id) == id \in WorkerIds /\ workers[id].pc = "done"

\* C12: every started worker eventually terminates (while the process
\* lives), also when its peer sends nothing more.
C12_WorkersTerminate ==
    \A id \in 1..MaxDatagrams :
        [](id \in WorkerIds => <>(Terminated(id) \/ mainState = "panicked"))

\* C13: a packet of any of the four shapes that is serialized and then
\* deserialized comes back as it was: serialize does not fail, deserialize
\* succeeds, and its result is the packet.
C13_RoundTrip ==
    /\ codec.pc # "panicked"
    /\ (codec.pc = "decoded" /\ codec.frame # NoFrame) => codec.decoded = Ok(codec.frame)

\* C14: a serialized Data packet is the opcode 3, the block number and the
\* first len bytes of its array, 4 + len bytes in all.
C14_DataIsTruncated ==
    (codec.pc = "bytes" /\ codec.frame.type = "Data") =>
        codec.wire = BeBytes(DATA_OPCODE) \o BeBytes(codec.frame.block)
                         \o SubSeq(codec.frame.data, 1, codec.frame.len)

\* C16: deserialize of a slice with opcode 1 or 2 yields the Request with
\* the bytes up to the first zero byte as file and the text up to the next
\* zero byte as mode whenever the slice holds both zero bytes, the last byte
\* of the slice included, and fails with an Err when one is missing.
C16_RequestDecodes ==
    (/\ codec.pc = "decoded"
     /\ codec.frame = NoFrame
     /\ WireOpcode(codec.wire) \in {READ_OPCODE, WRITE_OPCODE}) =>
        IF Cardinality(ZerosOf(codec.wire)) >= 2
        THEN LET z1 == LeastOf(ZerosOf(codec.wire))
                 z2 == LeastOf(ZerosOf(codec.wire) \ {z1})
             IN  codec.decoded =
                     Ok(Request(WireOpcode(codec.wire),
                                SubSeq(codec.wire, 3, z1 - 1),
                                ModeFrom(SubSeq(codec.wire, z1 + 1, z2 - 1))))
        ELSE codec.decoded.res = "Err"

\* C20: the k-th block of a transfer has the block number k, also beyond
\* block 65535: the counter does not wrap and the addition does not fault.
C20_BlockIsOrdinal ==
    counter.pc # "idle" =>
        /\ counter.pc = "counting"
        /\ counter.current_block = counter.nth

\* the worker w cannot open (read) or create (write) its file
CannotOpen(w) == IF w.kind = "read" THEN ~CanOpen(w.file) ELSE ~CanCreate(w.file)

\* the Error datagram of the protocol for that: code 1 and no message for a
\* read, code 0 and a message for a write (the code little-endian)
OpenErrorOf(w) ==
    IF w.kind = "read"
    THEN BeBytes(ERROR_OPCODE) \o <<FILE_NOT_FOUND, 0>> \o <<0>>
    ELSE BeBytes(ERROR_OPCODE) \o <<SEE_MSG, 0>> \o CreateErrorMsg \o <<0>>

\* C15: a worker that cannot open its file sends, when it runs, that one
\* Error datagram and nothing else, returns, and takes no frame from its
\* channel, then or later.
C15_OpenFailureEnds ==
    [][ \A id \in WorkerIds :
          CannotOpen(workers[id]) =>
              IF workers[id].pc = "start"
              THEN workers'[id].pc # "start" =>
                      /\ workers'[id].pc = "done"
                      /\ workers'[id].out = << OpenErrorOf(workers[id]) >>
                      /\ workers'[id].written = << >>
                      /\ workers'[id].chan = workers[id].chan
              ELSE workers'[id] = workers[id] ]_vars

\* C15 witness: a worker that could not open its file has returned after
\* its one Error datagram, and a frame that reached its channel before it
\* ran is still there.
C15_Witness ==
    \E id \in WorkerIds :
        /\ CannotOpen(workers[id])
        /\ workers[id].pc = "done"
        /\ workers[id].out = << OpenErrorOf(workers[id]) >>
        /\ workers[id].chan # << >>

\* the Data datagrams the worker `id` has sent, by their place in its output
DataSent(id) == {i \in 1..Len(workers[id].out) : IsWireData(workers[id].out[i])}

\* C18: a read worker has sent at most one Data datagram more than it has
\* taken Acks, and no two Data datagrams with one block number that differ.
C18_OneInFlight ==
    \A id \in Readers :
        /\ Cardinality(DataSent(id)) <= 1 + Cardinality(workers[id].acks)
        /\ \A i, j \in DataSent(id) :
              WireBlock(workers[id].out[i]) = WireBlock(workers[id].out[j])
                  => workers[id].out[i] = workers[id].out[j]

\* C19: the frame the Dispatcher hands to a worker for a datagram is the
\* frame of that datagram's own bytes: for a Data datagram of n payload
\* bytes a Data frame of len n with those bytes.
C19_FrameOfDatagram ==
    [][ Received =>
          \A id \in WorkerIds :
              (/\ Len(workers'[id].chan) > Len(workers[id].chan)
               /\ deserialize(last'.dgram).res = "Ok")
              => workers'[id].chan[Len(workers'[id].chan)] = deserialize(last'.dgram).val
      ]_vars

\* the byte values of the datagrams the peer addr sends, and the zero of
\* an array never written to
OwnBytes(addr) ==
    {0} \cup UNION {{d[i] : i \in 1..Len(d)} : d \in PeerDatagrams(addr)}

\* C17: what the frames of one peer do stays with that peer's worker; a
\* worker serving another address keeps its block counter, file and
\* output.  So the file of a write worker holds no byte that came from
\* another peer: each is a byte its own peer sent (or the zero of an array
\* never written to).
C17_OtherPeersLeaveFile ==
    \A id \in Writers :
        \A i \in 1..Len(workers[id].written) :
            workers[id].written[i] \in OwnBytes(workers[id].dst)

====
